---- MODULE Spec2Model ----
(***************************************************************************)
(* A model of the nuoi-dev data layer (src/unnamed/part_000): the hybrid   *)
(* Record Store (local JSON files / Vercel KV with an in-memory Map), the  *)
(* collection repositories built on it and the derived-state helpers.      *)
(*                                                                         *)
(* Representation.                                                         *)
(*  - An entity is a TLA+ record; a property the JavaScript object does    *)
(*    not have is a field the record does not have (reading it gives       *)
(*    undefined, see Has).                                                 *)
(*  - A document is a record with one field, {profiles: [...]},            *)
(*    {messages: [...]}, ..., holding the sequence of entities.            *)
(*  - A JSON text is not a document: JSONstringify turns a document into   *)
(*    [key, rows], each row the sequence of <<property, value>> pairs of   *)
(*    one entity, and JSONparse builds the document back from the pairs.   *)
(*  - In hosted mode documents are JavaScript objects held by reference:   *)
(*    memoryStore maps a name to a reference and heap maps a reference to  *)
(*    the object's current content, so that a mutation in place is seen    *)
(*    through every holder of the reference.                               *)
(*  - An ISO-8601 timestamp is [date, time]; toISOString and getTime       *)
(*    convert between it and the millisecond clock.                        *)
(***************************************************************************)
EXTENDS Integers, Sequences, FiniteSets, Bags, TLC

VARIABLES
    isVercel,      \* line 6: the backend flag, resolved once at startup
    kv,            \* line 9-16: TRUE when the Vercel KV client was loaded
    files,         \* local mode: data/<name>.json, a JSON text or NoFile
    memoryStore,   \* line 19: Map name -> object reference (NoRef: no entry)
    heap,          \* the document objects that are still referenced
    kvStore,       \* the remote key-value store: name -> JSON text or NoFile
    pending,       \* the kv.set calls of writeDataAsync still in flight (a bag)
    clock,         \* the system clock in milliseconds (Date.now())
    nextOid,       \* identities handed to post objects so far (hosted mode)
    scope,         \* the collection names the callers of this run pass
    added,         \* the addChatMessage calls made so far
    budget,        \* the mutating calls the callers of this run still make
    op             \* the last call and what it returned

vars == <<isVercel, kv, files, memoryStore, heap, kvStore, pending, clock, nextOid,
          scope, added, budget, op>>

storeVars == <<files, memoryStore, heap, kvStore, pending>>

env == <<isVercel, kv, scope>>

(***************************************************************************)
(* Bounds of the model.                                                    *)
(***************************************************************************)
MaxPending == 2      \* kv.set calls in flight at once
MaxLen == 3          \* entities in a collection of the small specifications

Names == {"users", "profiles", "posts", "chat", "votes"}

NoFile == [none |-> TRUE]   \* existsSync(filePath) is false / kv.get gives null
NoRef == 0                  \* memoryStore.get(name) is undefined

Min(a, b) == IF a < b THEN a ELSE b
Max(a, b) == IF a > b THEN a ELSE b

(***************************************************************************)
(* Time.  new Date().toISOString() and new Date(s).getTime().              *)
(***************************************************************************)
MsPerDay == 24 * 60 * 60 * 1000

toISOString(t) == [date |-> t \div MsPerDay, time |-> t % MsPerDay]

getTime(iso) == iso.date * MsPerDay + iso.time

\* toISOString().split('T')[0]
datePrefix(iso) == iso.date

\* createdAt.startsWith(today)
startsWith(iso, today) == datePrefix(iso) = today

\* The instants the model's clock and timestamps take: two in each of three days.
Times == {0, 1, MsPerDay, MsPerDay + 1, 2 * MsPerDay, 2 * MsPerDay + 1}

(***************************************************************************)
(* JSON.  JSON.stringify(data, null, 2) and JSON.parse(data).              *)
(***************************************************************************)
PropertyOrder ==
    <<"id", "username", "votes", "rank", "updatedAt", "createdAt",
      "isPinned", "likes", "voterId", "profileId">>

\* obj.f is not undefined
Has(obj, f) == f \in DOMAIN obj

stringifyEntity(e) ==
    LET fs == SelectSeq(PropertyOrder, LAMBDA f : f \in DOMAIN e)
    IN  [j \in 1..Len(fs) |-> <<fs[j], e[fs[j]]>>]

parseEntity(pairs) ==
    [f \in {pairs[j][1] : j \in DOMAIN pairs} |->
        pairs[CHOOSE j \in DOMAIN pairs : pairs[j][1] = f][2]]

keyOf(data) == CHOOSE k \in DOMAIN data : TRUE

JSONstringify(data) ==
    [key |-> keyOf(data),
     rows |-> [i \in 1..Len(data[keyOf(data)]) |-> stringifyEntity(data[keyOf(data)][i])]]

JSONparse(text) ==
    [k \in {text.key} |-> [i \in 1..Len(text.rows) |-> parseEntity(text.rows[i])]]

\* The property that holds the entities of a collection's document.
docKey(name) == IF name = "chat" THEN "messages" ELSE name

\* { profiles: [] }, { messages: [] }, ...: the default every repository passes.
emptyDoc(name) == [k \in {docKey(name)} |-> <<>>]

mkDoc(name, items) == [k \in {docKey(name)} |-> items]

(***************************************************************************)
(* The Record Store.                                                       *)
(***************************************************************************)
\* The object a repository holds after readData: the cached object, or the
\* default literal, which is a new object.
newRef == CHOOSE r \in 1..(Cardinality(DOMAIN heap) + 1) : r \notin DOMAIN heap

cachedRef(name) == memoryStore[name]

objOf(name) == IF cachedRef(name) # NoRef THEN cachedRef(name) ELSE newRef

\* The objects still referenced: by the Map or by a writeDataAsync in flight.
collect(h, ms, pd) ==
    [r \in ({ms[n] : n \in Names} \ {NoRef}) \cup {p.data : p \in BagToSet(pd)} |-> h[r]]

\* readData, lines 67-81: the value returned.
readData(name, defaultValue) ==
    IF isVercel
    THEN IF cachedRef(name) # NoRef THEN heap[cachedRef(name)] ELSE defaultValue
    ELSE IF files[name] = NoFile THEN defaultValue ELSE JSONparse(files[name])

\* readData without lines 73-74: a missing file is left missing.
filesAfterRead_noCreate(name, defaultValue) == files

\* readData, lines 73-74: the files after a read (a missing file is created).
filesAfterRead(name, defaultValue) ==
    IF ~isVercel /\ files[name] = NoFile
    THEN [files EXCEPT ![name] = JSONstringify(defaultValue)]
    ELSE files

\* A call of readData that is followed by no write.
readOnly(name, defaultValue) ==
    /\ files' = filesAfterRead(name, defaultValue)
    /\ UNCHANGED <<memoryStore, heap, kvStore, pending>>

\* writeDataAsync, lines 84-99, up to its await: the kv.set call is issued with
\* the document serialised as it is now; without a client (and without fs, as
\* always on Vercel) the Map is set once more.
writeDataAsync_issue(name, data, obj) ==
    IF isVercel /\ kv
    THEN pending (+) SetToBag({[name |-> name, data |-> obj, body |-> JSONstringify(data)]})
    ELSE pending

\* writeData without line 103: the Map is left to the background write.
writeData_noCacheSet(name, data, obj) ==
    IF isVercel
    THEN /\ pending' = writeDataAsync_issue(name, data, obj)
         /\ memoryStore' = IF kv THEN memoryStore ELSE [memoryStore EXCEPT ![name] = obj]
         /\ heap' = collect((obj :> data) @@ heap, memoryStore', pending')
         /\ UNCHANGED <<files, kvStore>>
    ELSE /\ files' = [files EXCEPT ![name] = JSONstringify(data)]
         /\ UNCHANGED <<memoryStore, heap, kvStore, pending>>

\* writeData, lines 101-112.  data is the content of the object obj at the call.
writeData(name, data, obj) ==
    IF isVercel
    THEN /\ memoryStore' = [memoryStore EXCEPT ![name] = obj]
         /\ pending' = writeDataAsync_issue(name, data, obj)
         /\ heap' = collect((obj :> data) @@ heap, memoryStore', pending')
         /\ UNCHANGED <<files, kvStore>>
    ELSE /\ files' = [files EXCEPT ![name] = JSONstringify(data)]
         /\ UNCHANGED <<memoryStore, heap, kvStore, pending>>

\* writeData(name, data) where the objects of the process are h at the call:
\* the caller changed, before the call, an object that other objects hold too.
writeDataOn(h, name, obj) ==
    IF isVercel
    THEN /\ memoryStore' = [memoryStore EXCEPT ![name] = obj]
         /\ pending' = writeDataAsync_issue(name, h[obj], obj)
         /\ heap' = collect(h, memoryStore', pending')
         /\ UNCHANGED <<files, kvStore>>
    ELSE /\ files' = [files EXCEPT ![name] = JSONstringify(h[obj])]
         /\ UNCHANGED <<memoryStore, heap, kvStore, pending>>

\* Array.prototype.findIndex(e => e.id === id): the first index (from 1), or -1.
findIndex(arr, id) ==
    IF \E i \in DOMAIN arr : arr[i].id = id
    THEN CHOOSE i \in DOMAIN arr :
            /\ arr[i].id = id
            /\ \A j \in 1..(i - 1) : arr[j].id # id
    ELSE -1

\* A removal of the first entity of the id only.
filterOut_first(arr, id) ==
    IF findIndex(arr, id) = -1 THEN arr
    ELSE SubSeq(arr, 1, findIndex(arr, id) - 1)
           \o SubSeq(arr, findIndex(arr, id) + 1, Len(arr))

\* Array.prototype.filter(e => e.id !== id)
filterOut(arr, id) == SelectSeq(arr, LAMBDA e : e.id # id)

\* { ...a, ...b }: the properties of b over those of a.
spread(a, b) == [f \in DOMAIN a \cup DOMAIN b |-> IF f \in DOMAIN b THEN b[f] ELSE a[f]]

Null == [null |-> TRUE]

\* arr.find(e => e.id === id) || null
find(arr, id) == IF findIndex(arr, id) = -1 THEN Null ELSE arr[findIndex(arr, id)]

\* A mutation in place of the object read, followed by no write (a sort).
mutateInPlace(name, data, defaultValue) ==
    /\ files' = filesAfterRead(name, defaultValue)
    /\ heap' = IF isVercel /\ cachedRef(name) # NoRef
               THEN [heap EXCEPT ![cachedRef(name)] = data]
               ELSE heap
    /\ UNCHANGED <<memoryStore, kvStore, pending>>

canWrite == ~(isVercel /\ kv) \/ BagCardinality(pending) < MaxPending

\* writeDataAsync, lines 87-88: the kv.set call p resolved; the Map is set to the
\* object the call was made with.
kvSetResolved(p) ==
    /\ BagIn(p, pending)
    /\ kvStore' = [kvStore EXCEPT ![p.name] = p.body]
    /\ memoryStore' = [memoryStore EXCEPT ![p.name] = p.data]
    /\ pending' = pending (-) SetToBag({p})
    /\ heap' = collect(heap, memoryStore', pending')
    /\ op' = [fn |-> "kvSetResolved", name |-> p.name]
    /\ UNCHANGED <<env, files, clock, nextOid, added, budget>>

\* The catch block of writeDataAsync taking the cached entry back.
kvSetRejected_rollback(p) ==
    /\ BagIn(p, pending)
    /\ memoryStore' = [memoryStore EXCEPT ![p.name] = NoRef]
    /\ pending' = pending (-) SetToBag({p})
    /\ heap' = collect(heap, memoryStore', pending')
    /\ op' = [fn |-> "kvSetRejected", name |-> p.name]
    /\ UNCHANGED <<env, files, kvStore, clock, nextOid, added, budget>>

\* writeDataAsync, lines 89-91: the kv.set call p rejected; the error is logged
\* and the Map is set all the same.
kvSetRejected(p) ==
    /\ BagIn(p, pending)
    /\ memoryStore' = [memoryStore EXCEPT ![p.name] = p.data]
    /\ pending' = pending (-) SetToBag({p})
    /\ heap' = collect(heap, memoryStore', pending')
    /\ op' = [fn |-> "kvSetRejected", name |-> p.name]
    /\ UNCHANGED <<env, files, kvStore, clock, nextOid, added, budget>>

\* The collection as the repositories see it: what getAll* would read.
stored(name) == readData(name, emptyDoc(name))[docKey(name)]

(***************************************************************************)
(* The process at startup, lines 6-29: the flag is read from the           *)
(* environment, the client is loaded on Vercel only (and may be missing),  *)
(* the Map is empty and no call is in flight.                              *)
(***************************************************************************)
Modes == {<<FALSE, FALSE>>, <<TRUE, TRUE>>, <<TRUE, FALSE>>}

noDocs == [n \in Names |-> NoFile]

nameOrder == <<"users", "profiles", "posts", "chat", "votes">>

\* The reference of the cached object of a collection in a process state.
refOf(docs, name) ==
    Cardinality({i \in DOMAIN nameOrder :
                   /\ docs[nameOrder[i]] # NoFile
                   /\ i <= (CHOOSE k \in DOMAIN nameOrder : nameOrder[k] = name)})

\* A state of the process in which the collections hold docs (NoFile: never
\* written) and every write made so far has completed: the files of local mode,
\* or the Map of hosted mode and, with a client, the remote keys.
processState(mode, docs) ==
    /\ isVercel = mode[1]
    /\ kv = mode[2]
    /\ files = [n \in Names |->
                 IF mode[1] \/ docs[n] = NoFile THEN NoFile ELSE JSONstringify(docs[n])]
    /\ kvStore = [n \in Names |->
                   IF ~mode[2] \/ docs[n] = NoFile THEN NoFile ELSE JSONstringify(docs[n])]
    /\ memoryStore = [n \in Names |->
                       IF ~mode[1] \/ docs[n] = NoFile THEN NoRef ELSE refOf(docs, n)]
    /\ heap = [r \in {memoryStore[n] : n \in Names} \ {NoRef} |->
                 docs[CHOOSE n \in Names : memoryStore[n] = r]]
    /\ pending = EmptyBag
    /\ op = [fn |-> "startup"]

(***************************************************************************)
(* SpecStore: the Record Store alone, written and read with raw documents. *)
(***************************************************************************)
storeNames == {"profiles", "chat"}

storeItems == {<<>>, <<[id |-> 1]>>, <<[id |-> 2, votes |-> 0], [id |-> 1]>>}

storeDocs(name) == {mkDoc(name, items) : items \in storeItems}

storeDefaults(name) == {emptyDoc(name), mkDoc(name, <<[id |-> 2, votes |-> 0]>>)}

\* writeData(name, data) with a document of the caller's: an object of its own,
\* or (hosted mode) the cached object with new content.
WriteData(name, data, obj) ==
    /\ canWrite
    /\ obj \in {newRef, objOf(name)}
    /\ writeData(name, data, obj)
    /\ op' = [fn |-> "writeData", name |-> name, data |-> data]
    /\ UNCHANGED <<env, clock, nextOid, added, budget>>

ReadData(name, defaultValue) ==
    /\ readOnly(name, defaultValue)
    /\ op' = [fn |-> "readData", name |-> name, defaultValue |-> defaultValue,
              ret |-> readData(name, defaultValue)]
    /\ UNCHANGED <<env, clock, nextOid, added, budget>>

InitStore ==
    /\ \E mode \in Modes : processState(mode, noDocs)
    /\ clock = 0
    /\ nextOid = 1
    /\ added = 0
    /\ budget = 0
    /\ \E name \in storeNames : scope = {name}

NextStore ==
    \/ \E name \in scope : \E data \in storeDocs(name) :
          \E obj \in {newRef, objOf(name)} : WriteData(name, data, obj)
    \/ \E name \in scope : \E d \in storeDefaults(name) : ReadData(name, d)
    \/ \E p \in BagToSet(pending) : kvSetResolved(p)
    \/ \E p \in BagToSet(pending) : kvSetRejected(p)

SpecStore == InitStore /\ [][NextStore]_vars

\* C1: a document written is the document the next read returns, whatever the
\* default of the read and whatever was stored before, in either mode.
ReadAfterWrite ==
    op.fn = "writeData" =>
        \A d \in storeDefaults(op.name) : readData(op.name, d) = op.data

ReadAfterWriteWitness ==
    /\ op.fn = "writeData"
    /\ op.data = mkDoc("chat", <<[id |-> 2, votes |-> 0], [id |-> 1]>>)
    /\ isVercel /\ kv /\ BagCardinality(pending) = MaxPending

(***************************************************************************)
(* Derived-state helpers.                                                  *)
(***************************************************************************)
\* calculateRank with the silver threshold compared strictly.
calculateRank_strict(votes) ==
    IF votes >= 1000 THEN "legend"
    ELSE IF votes >= 500 THEN "master"
    ELSE IF votes >= 200 THEN "diamond"
    ELSE IF votes >= 100 THEN "platinum"
    ELSE IF votes >= 50 THEN "gold"
    ELSE IF votes > 20 THEN "silver"
    ELSE "bronze"

\* calculateRank, lines 303-311.
calculateRank(votes) ==
    IF votes >= 1000 THEN "legend"
    ELSE IF votes >= 500 THEN "master"
    ELSE IF votes >= 200 THEN "diamond"
    ELSE IF votes >= 100 THEN "platinum"
    ELSE IF votes >= 50 THEN "gold"
    ELSE IF votes >= 20 THEN "silver"
    ELSE "bronze"

(***************************************************************************)
(* SpecRank: calculateRank applied to every vote count up to MaxVotes.     *)
(***************************************************************************)
MaxVotes == 1100

CalculateRank(votes) ==
    /\ op' = [fn |-> "calculateRank", votes |-> votes, ret |-> calculateRank(votes)]
    /\ UNCHANGED <<env, clock, nextOid, added, budget, storeVars>>

InitRank ==
    /\ \E mode \in Modes : processState(mode, noDocs)
    /\ clock = 0
    /\ nextOid = 1
    /\ added = 0
    /\ budget = 0
    /\ scope = {}

NextRank == \E votes \in 0..MaxVotes : CalculateRank(votes)

SpecRank == InitRank /\ [][NextRank]_vars

\* The tiers from the lowest to the highest, each with the vote counts it covers
\* (the last one has no upper end).
Tiers == <<"bronze", "silver", "gold", "platinum", "diamond", "master", "legend">>

tierFrom == <<0, 20, 50, 100, 200, 500, 1000>>

tierIndex(rank) == CHOOSE i \in DOMAIN Tiers : Tiers[i] = rank

inTier(votes, i) ==
    /\ tierFrom[i] <= votes
    /\ i < Len(Tiers) => votes <= tierFrom[i + 1] - 1

\* C4: calculateRank gives every vote count the tier of the fixed table whose
\* range holds it (0 and 19 bronze, 20 silver, 999 master, 1000 legend), and no
\* smaller vote count gets a higher tier.
RankTable ==
    op.fn = "calculateRank" =>
        /\ op.ret \in {Tiers[i] : i \in DOMAIN Tiers}
        /\ inTier(op.votes, tierIndex(op.ret))
        /\ op.votes \in {0, 19} => op.ret = "bronze"
        /\ op.votes = 20 => op.ret = "silver"
        /\ op.votes = 999 => op.ret = "master"
        /\ op.votes = 1000 => op.ret = "legend"
        /\ \A w \in 0..op.votes : tierIndex(calculateRank(w)) <= tierIndex(op.ret)

RankTableWitness ==
    /\ op.fn = "calculateRank"
    /\ op.votes = 1000
    /\ op.ret = "legend"

(***************************************************************************)
(* Array operations of JavaScript.                                         *)
(***************************************************************************)
\* line 245: (a, b) => new Date(a.createdAt).getTime() - new Date(b.createdAt).getTime()
byCreatedAtAsc(a, b) == getTime(a.createdAt) - getTime(b.createdAt)

\* isPinned as a condition: undefined is falsy.
pinned(post) == Has(post, "isPinned") /\ post.isPinned

pinnedThenOldest(a, b) ==
    IF pinned(a) /\ ~pinned(b) THEN -1
    ELSE IF ~pinned(a) /\ pinned(b) THEN 1
    ELSE getTime(a.createdAt) - getTime(b.createdAt)

\* lines 196-200: pinned first, then by date.
pinnedThenNewest(a, b) ==
    IF pinned(a) /\ ~pinned(b) THEN -1
    ELSE IF ~pinned(a) /\ pinned(b) THEN 1
    ELSE getTime(b.createdAt) - getTime(a.createdAt)

\* votes || 0
votesOr0(profile) == IF Has(profile, "votes") THEN profile.votes ELSE 0

\* line 157: (a, b) => (b.votes || 0) - (a.votes || 0)
byVotesDesc(a, b) == votesOr0(b) - votesOr0(a)

\* compareFn(a, b) for the three comparison functions of the repositories.
compare(compareFn, a, b) ==
    CASE compareFn = "byCreatedAtAsc" -> byCreatedAtAsc(a, b)
      [] compareFn = "pinnedThenNewest" -> pinnedThenNewest(a, b)
      [] compareFn = "byVotesDesc" -> byVotesDesc(a, b)

\* Array.prototype.sort(compareFn): a stable sort in place, for a compareFn
\* that orders the elements consistently (as the differences of valid
\* timestamps and of vote counts do).  The least elements come first, in their
\* order in arr.
sort(arr, compareFn) ==
    LET RECURSIVE go(_)
        go(rest) ==
            IF rest = <<>> THEN <<>>
            ELSE LET m == rest[CHOOSE i \in DOMAIN rest :
                              \A j \in DOMAIN rest : compare(compareFn, rest[i], rest[j]) <= 0]
                 IN  SelectSeq(rest, LAMBDA e : compare(compareFn, e, m) = 0)
                       \o go(SelectSeq(rest, LAMBDA e : compare(compareFn, e, m) # 0))
    IN  go(arr)

\* Array.prototype.slice(start): a negative start counts from the end, and -0
\* is 0.
slice(arr, start) ==
    LET from == IF start < 0 THEN Max(Len(arr) + start, 0) ELSE Min(start, Len(arr))
    IN  SubSeq(arr, from + 1, Len(arr))

(***************************************************************************)
(* Chat, lines 241-258.                                                    *)
(***************************************************************************)
ChatCap == 500

\* getChatMessages, lines 242-247.
getChatMessages(limit) ==
    \E data \in {readData("chat", emptyDoc("chat"))} :
    \E sorted \in {sort(data.messages, "byCreatedAtAsc")} :
        /\ mutateInPlace("chat", [data EXCEPT !.messages = sorted], emptyDoc("chat"))
        /\ op' = [fn |-> "getChatMessages", limit |-> limit, ret |-> slice(sorted, -limit)]
        /\ UNCHANGED <<env, clock, nextOid, added, budget>>

\* The messages addChatMessage keeps, cutting at the wrong end.
trimmed_head(messages) ==
    IF Len(messages) > ChatCap THEN SubSeq(messages, 1, ChatCap) ELSE messages

\* The messages addChatMessage keeps, trimming one message late.
trimmed_late(messages) ==
    IF Len(messages) > ChatCap + 1 THEN slice(messages, -ChatCap) ELSE messages

\* lines 253-255.
trimmed(messages) ==
    IF Len(messages) > ChatCap THEN slice(messages, -ChatCap) ELSE messages

\* addChatMessage, lines 249-258.
addChatMessage(message) ==
    \E data \in {readData("chat", emptyDoc("chat"))} :
    \E pushed \in {Append(data.messages, message)} :
        /\ canWrite
        /\ budget > 0
        /\ writeData("chat", [data EXCEPT !.messages = trimmed(pushed)], objOf("chat"))
        /\ added' = added + 1
        /\ budget' = budget - 1
        /\ op' = [fn |-> "addChatMessage", message |-> message, ret |-> message]
        /\ UNCHANGED <<env, clock, nextOid>>

(***************************************************************************)
(* SpecChat: the chat repository, from an empty collection and from one    *)
(* that addChatMessage has filled up to one message short of the cap.      *)
(***************************************************************************)
MaxChatCalls == 2

chatFilled == {0, ChatCap - 1}

chatTimes == {0, MsPerDay}

chatLimits == {0, 2, ChatCap}

\* The collection after n calls of addChatMessage, the messages numbered as
\* they came: all of one instant, or the first one stamped a day after the rest.
chatAfter(n, firstLate) ==
    [i \in 1..n |->
        [id |-> i,
         createdAt |-> toISOString(IF firstLate /\ i = 1 THEN MsPerDay ELSE 0)]]

InitChat ==
    /\ \E mode \in Modes : \E n \in chatFilled : \E firstLate \in BOOLEAN :
          /\ n = 0 => ~firstLate
          /\ processState(mode,
                 [noDocs EXCEPT !["chat"] =
                     IF n = 0 THEN NoFile ELSE mkDoc("chat", chatAfter(n, firstLate))])
          /\ added = n
    /\ clock = 0
    /\ nextOid = 1
    /\ budget = MaxChatCalls
    /\ scope = {"chat"}

NextChat ==
    \/ \E t \in chatTimes :
          addChatMessage([id |-> added + 1, createdAt |-> toISOString(t)])
    \/ \E limit \in chatLimits : getChatMessages(limit)
    \/ \E p \in BagToSet(pending) : kvSetResolved(p)
    \/ \E p \in BagToSet(pending) : kvSetRejected(p)

SpecChat == InitChat /\ [][NextChat]_vars

\* The chat documents held anywhere: the file, the cached object and the objects
\* of the writes in flight, the remote key and the bodies on their way to it.
chatDocs ==
    {JSONparse(t) : t \in {files["chat"], kvStore["chat"]} \ {NoFile}}
      \cup {heap[r] : r \in DOMAIN heap}
      \cup {JSONparse(p.body) : p \in BagToSet(pending)}

\* C5: the stored chat collection never holds more than 500 messages, and after
\* n calls of addChatMessage in all it holds min(n, 500) of them.
ChatRetentionCap ==
    /\ \A d \in chatDocs : Len(d.messages) <= 500
    /\ Len(stored("chat")) = Min(added, 500)

ChatRetentionCapWitness ==
    /\ op.fn = "addChatMessage"
    /\ added = 501
    /\ Len(stored("chat")) = 500

isAddChatMessage == op'.fn = "addChatMessage" /\ added' = added + 1

ascending(messages) ==
    \A i \in 1..(Len(messages) - 1) :
        getTime(messages[i].createdAt) <= getTime(messages[i + 1].createdAt)

idsOf(messages) == {messages[i].id : i \in DOMAIN messages}

\* The messages of before that are not in after (message ids are distinct).
evictedFrom(before, after) ==
    LET ids == idsOf(after) IN SelectSeq(before, LAMBDA m : m.id \notin ids)

\* The messages of before that are in after, in the order of before.
keptFrom(before, after) ==
    LET ids == idsOf(after) IN SelectSeq(before, LAMBDA m : m.id \in ids)

\* C6 as stated: whenever addChatMessage trims, the createdAt of the evicted
\* message is not later than that of any message that stays, and the messages
\* that stay keep their relative order.
ChatEvictsOldest ==
    [][(isAddChatMessage /\ Len(stored("chat")) + 1 > ChatCap) =>
          \A before \in {Append(stored("chat"), op'.message)} :
          \A after \in {stored("chat")'} :
          \A evicted \in {evictedFrom(before, after)} :
              /\ \A i \in DOMAIN evicted : \A j \in DOMAIN after :
                     getTime(evicted[i].createdAt) <= getTime(after[j].createdAt)
              /\ after = keptFrom(before, after)]_vars

\* C6 as amended: whenever addChatMessage trims, the evicted message is the first
\* of the stored sequence and the others stay in their order, followed by the new
\* message; the evicted message is the oldest by createdAt when the stored
\* sequence with the new message is in ascending createdAt order.
ChatEvictsFirstStored ==
    [][(isAddChatMessage /\ Len(stored("chat")) + 1 > ChatCap) =>
          \A before \in {Append(stored("chat"), op'.message)} :
          \A after \in {stored("chat")'} :
              /\ after = Tail(before)
              /\ evictedFrom(before, after) = <<Head(before)>>
              /\ ascending(before) =>
                     \A j \in DOMAIN after :
                        getTime(Head(before).createdAt) <= getTime(after[j].createdAt)]_vars

\* A call that trimmed: the first stored message is gone and the new one is last.
ChatEvictsFirstStoredWitness ==
    /\ op.fn = "addChatMessage"
    /\ added = ChatCap + 1
    /\ Len(stored("chat")) = ChatCap
    /\ 1 \notin idsOf(stored("chat"))
    /\ stored("chat")[ChatCap].id = ChatCap + 1

\* C7 as stated: getChatMessages(limit) returns min(limit, n) messages, the latest
\* by createdAt, in ascending createdAt order, and none for limit = 0.
ChatLatestLimit ==
    op.fn = "getChatMessages" =>
        \A all \in {sort(stored("chat"), "byCreatedAtAsc")} :
            LET n == Len(all)
                k == Min(op.limit, n)
            IN  /\ Len(op.ret) = k
                /\ op.ret = SubSeq(all, n - k + 1, n)
                /\ ascending(op.ret)
                /\ op.limit = 0 => op.ret = <<>>

\* The same for the limits of at least 1.
ChatLatestPositiveLimit ==
    (op.fn = "getChatMessages" /\ op.limit # 0) => ChatLatestLimit

(***************************************************************************)
(* Posts, lines 192-239.  In hosted mode a post object is shared by every  *)
(* array that holds it (filter copies the references), and likePost        *)
(* changes it in place: oid is the identity of the object, which is no     *)
(* property of it (JSONstringify does not write it).                       *)
(***************************************************************************)
\* A new post object with the properties of post.
newPost(post) ==
    IF isVercel
    THEN [f \in DOMAIN post \cup {"oid"} |-> IF f = "oid" THEN nextOid ELSE post[f]]
    ELSE [f \in DOMAIN post \ {"oid"} |-> post[f]]

oidAfterNew == IF isVercel THEN nextOid + 1 ELSE nextOid

\* likes || 0 with the count read before an earlier like was written.
likesOr0_stale(post) == 0

\* likes || 0
likesOr0(post) == IF Has(post, "likes") THEN post.likes ELSE 0

\* getAllPosts, lines 193-201.
getAllPosts ==
    \E data \in {readData("posts", emptyDoc("posts"))} :
    \E sorted \in {sort(data.posts, "pinnedThenNewest")} :
        /\ mutateInPlace("posts", [data EXCEPT !.posts = sorted], emptyDoc("posts"))
        /\ op' = [fn |-> "getAllPosts", ret |-> sorted]
        /\ UNCHANGED <<env, clock, nextOid, added, budget>>

\* getPostById, lines 203-206.
getPostById(id) ==
    \E data \in {readData("posts", emptyDoc("posts"))} :
    \E sorted \in {sort(data.posts, "pinnedThenNewest")} :
        /\ mutateInPlace("posts", [data EXCEPT !.posts = sorted], emptyDoc("posts"))
        /\ op' = [fn |-> "getPostById", id |-> id, ret |-> find(sorted, id)]
        /\ UNCHANGED <<env, clock, nextOid, added, budget>>

\* createPost, lines 208-213.
createPost(post) ==
    \E data \in {readData("posts", emptyDoc("posts"))} :
        /\ canWrite
        /\ budget > 0
        /\ writeData("posts", [data EXCEPT !.posts = Append(@, newPost(post))], objOf("posts"))
        /\ nextOid' = oidAfterNew
        /\ budget' = budget - 1
        /\ op' = [fn |-> "createPost", post |-> post, ret |-> newPost(post)]
        /\ UNCHANGED <<env, clock, added>>

\* updatePost, lines 215-222.
updatePost(id, updates) ==
    \E data \in {readData("posts", emptyDoc("posts"))} :
    \E index \in {findIndex(data.posts, id)} :
        IF index = -1
        THEN /\ readOnly("posts", emptyDoc("posts"))
             /\ op' = [fn |-> "updatePost", id |-> id, updates |-> updates, ret |-> Null]
             /\ UNCHANGED <<env, clock, nextOid, added, budget>>
        ELSE /\ canWrite
             /\ budget > 0
             /\ writeData("posts",
                    [data EXCEPT !.posts[index] = newPost(spread(@, updates))],
                    objOf("posts"))
             /\ nextOid' = oidAfterNew
             /\ budget' = budget - 1
             /\ op' = [fn |-> "updatePost", id |-> id, updates |-> updates,
                       ret |-> newPost(spread(data.posts[index], updates))]
             /\ UNCHANGED <<env, clock, added>>

\* deletePost, lines 224-230.
deletePost(id) ==
    \E data \in {readData("posts", emptyDoc("posts"))} :
    \E filtered \in {filterOut(data.posts, id)} :
        IF Len(filtered) = Len(data.posts)
        THEN /\ readOnly("posts", emptyDoc("posts"))
             /\ op' = [fn |-> "deletePost", id |-> id, ret |-> FALSE]
             /\ UNCHANGED <<env, clock, nextOid, added, budget>>
        ELSE /\ canWrite
             /\ budget > 0
             /\ writeData("posts", mkDoc("posts", filtered), newRef)
             /\ budget' = budget - 1
             /\ op' = [fn |-> "deletePost", id |-> id, ret |-> TRUE]
             /\ UNCHANGED <<env, clock, nextOid, added>>

\* line 236 in hosted mode: the post object liked is the same object in every
\* array that holds it.
likedIn(data, oid) ==
    IF "posts" \in DOMAIN data
    THEN [data EXCEPT !.posts =
             [i \in DOMAIN @ |->
                 IF Has(@[i], "oid") /\ @[i].oid = oid
                 THEN spread(@[i], [likes |-> likesOr0(@[i]) + 1])
                 ELSE @[i]]]
    ELSE data

\* likePost, lines 232-239.
likePost(id) ==
    \E data \in {readData("posts", emptyDoc("posts"))} :
    \E index \in {findIndex(data.posts, id)} :
        IF index = -1
        THEN /\ readOnly("posts", emptyDoc("posts"))
             /\ op' = [fn |-> "likePost", id |-> id, ret |-> Null]
             /\ UNCHANGED <<env, clock, nextOid, added, budget>>
        ELSE \E liked \in {spread(data.posts[index],
                                   [likes |-> likesOr0(data.posts[index]) + 1])} :
             /\ canWrite
             /\ budget > 0
             /\ IF isVercel
                THEN writeDataOn([r \in DOMAIN heap |-> likedIn(heap[r], liked.oid)],
                                 "posts", cachedRef("posts"))
                ELSE writeData("posts", [data EXCEPT !.posts[index] = liked], objOf("posts"))
             /\ budget' = budget - 1
             /\ op' = [fn |-> "likePost", id |-> id, ret |-> liked]
             /\ UNCHANGED <<env, clock, nextOid, added>>

(***************************************************************************)
(* The posts repository over a few posts: A, B and C of the ordering       *)
(* example (C was created with no isPinned property).                      *)
(***************************************************************************)
MaxPostCalls == 3

postA == [id |-> 1, createdAt |-> toISOString(1), isPinned |-> FALSE]

postB == [id |-> 2, createdAt |-> toISOString(0), isPinned |-> TRUE]

postC == [id |-> 3, createdAt |-> toISOString(MsPerDay)]

postInputs == {postA, postB, postC}

\* The ids the calls are made with: A is looked up and pinned, B and C are
\* deleted, C is liked (each id also while no post has it).
lookupIds == {1}

pinIds == {1}

deleteIds == {2, 3}

likeIds == {3}

postUpdates == {[isPinned |-> TRUE]}

InitPosts ==
    /\ \E mode \in Modes : processState(mode, noDocs)
    /\ clock = 0
    /\ nextOid = 1
    /\ added = 0
    /\ budget = MaxPostCalls
    /\ scope = {"posts"}

NextPosts ==
    \/ getAllPosts
    \/ \E id \in lookupIds : getPostById(id)
    \/ \E post \in postInputs : createPost(post)
    \/ \E id \in pinIds : \E updates \in postUpdates : updatePost(id, updates)
    \/ \E id \in deleteIds : deletePost(id)
    \/ \E id \in likeIds : likePost(id)
    \/ \E p \in BagToSet(pending) : kvSetResolved(p)
    \/ \E p \in BagToSet(pending) : kvSetRejected(p)

SpecPosts == InitPosts /\ [][NextPosts]_vars

\* The properties of an entity (the identity of the object left out).
props(e) == [f \in DOMAIN e \ {"oid"} |-> e[f]]

propsOf(arr) == [i \in DOMAIN arr |-> props(arr[i])]

\* arr and brr hold the same entities, each as many times.
sameEntities(arr, brr) ==
    /\ Len(arr) = Len(brr)
    /\ \A e \in {arr[i] : i \in DOMAIN arr} :
          Cardinality({i \in DOMAIN arr : arr[i] = e})
            = Cardinality({i \in DOMAIN brr : brr[i] = e})

pinnedFirst(arr) ==
    \A i, j \in DOMAIN arr : i < j /\ pinned(arr[j]) => pinned(arr[i])

unpinnedNewestFirst(arr) ==
    \A i, j \in DOMAIN arr :
        i < j /\ ~pinned(arr[i]) /\ ~pinned(arr[j])
            => getTime(arr[i].createdAt) >= getTime(arr[j].createdAt)

isExampleABC(arr) ==
    /\ Len(arr) = 3
    /\ {props(arr[i]) : i \in DOMAIN arr} = {postA, postB, postC}

\* C8: a call of getAllPosts returns the posts that were stored, each once per
\* stored occurrence, every pinned post before every unpinned one and the
\* unpinned ones in descending createdAt order; when A, B and C were stored,
\* in whatever order, it returns [B, C, A].
PostsOrdering ==
    [][op'.fn = "getAllPosts" =>
         \A before \in {stored("posts")} : \A ret \in {op'.ret} :
            /\ sameEntities(ret, before)
            /\ pinnedFirst(ret)
            /\ unpinnedNewestFirst(ret)
            /\ isExampleABC(before) => propsOf(ret) = <<postB, postC, postA>>]_vars

\* getAllPosts has returned [B, C, A] for the posts stored in a file as A, B, C.
PostsOrderingWitness ==
    /\ op.fn = "getAllPosts"
    /\ ~isVercel
    /\ propsOf(stored("posts")) = <<postA, postB, postC>>
    /\ propsOf(op.ret) = <<postB, postC, postA>>

(***************************************************************************)
(* Votes, lines 260-292.                                                   *)
(***************************************************************************)
\* new Date(): the clock of the process moves on to the instant t.
Tick(t) ==
    /\ t > clock
    /\ clock' = t
    /\ op' = [fn |-> "Tick"]
    /\ UNCHANGED <<env, storeVars, nextOid, added, budget>>

\* getVotes, lines 261-264.
getVotes ==
    /\ readOnly("votes", emptyDoc("votes"))
    /\ op' = [fn |-> "getVotes", ret |-> readData("votes", emptyDoc("votes")).votes]
    /\ UNCHANGED <<env, clock, nextOid, added, budget>>

\* addVote refusing a second vote of a voter for a profile on one day.
addVote_oncePerDay(vote) ==
    \E data \in {readData("votes", emptyDoc("votes"))} :
        /\ canWrite
        /\ budget > 0
        /\ writeData("votes",
               [data EXCEPT !.votes =
                   IF \E i \in DOMAIN @ :
                         /\ @[i].voterId = vote.voterId
                         /\ @[i].profileId = vote.profileId
                         /\ datePrefix(@[i].createdAt) = datePrefix(vote.createdAt)
                   THEN @ ELSE Append(@, vote)],
               objOf("votes"))
        /\ budget' = budget - 1
        /\ op' = [fn |-> "addVote", vote |-> vote, ret |-> vote]
        /\ UNCHANGED <<env, clock, nextOid, added>>

\* addVote, lines 266-271.
addVote(vote) ==
    \E data \in {readData("votes", emptyDoc("votes"))} :
        /\ canWrite
        /\ budget > 0
        /\ writeData("votes", [data EXCEPT !.votes = Append(@, vote)], objOf("votes"))
        /\ budget' = budget - 1
        /\ op' = [fn |-> "addVote", vote |-> vote, ret |-> vote]
        /\ UNCHANGED <<env, clock, nextOid, added>>

countForProfile_all(votes, profileId) == Len(votes)

\* line 275: votes.filter(v => v.profileId === profileId).length
countForProfile(votes, profileId) ==
    Len(SelectSeq(votes, LAMBDA v : v.profileId = profileId))

\* getVotesForProfile, lines 273-276.
getVotesForProfile(profileId) ==
    /\ readOnly("votes", emptyDoc("votes"))
    /\ op' = [fn |-> "getVotesForProfile", profileId |-> profileId,
              ret |-> countForProfile(readData("votes", emptyDoc("votes")).votes, profileId)]
    /\ UNCHANGED <<env, clock, nextOid, added, budget>>

\* line 280: new Date().toISOString().split('T')[0]
today == datePrefix(toISOString(clock))

someVoteToday_anyProfile(votes, visitorId, profileId) ==
    \E i \in DOMAIN votes :
        /\ votes[i].voterId = visitorId
        /\ startsWith(votes[i].createdAt, today)

\* lines 281-285: votes.some(v => ...)
someVoteToday(votes, visitorId, profileId) ==
    \E i \in DOMAIN votes :
        /\ votes[i].voterId = visitorId
        /\ votes[i].profileId = profileId
        /\ startsWith(votes[i].createdAt, today)

\* hasVotedToday, lines 278-286.
hasVotedToday(visitorId, profileId) ==
    /\ readOnly("votes", emptyDoc("votes"))
    /\ op' = [fn |-> "hasVotedToday", visitorId |-> visitorId, profileId |-> profileId,
              ret |-> someVoteToday(readData("votes", emptyDoc("votes")).votes,
                                    visitorId, profileId)]
    /\ UNCHANGED <<env, clock, nextOid, added, budget>>

\* getTodayVoteCount, lines 288-292.
getTodayVoteCount(visitorId) ==
    /\ readOnly("votes", emptyDoc("votes"))
    /\ op' = [fn |-> "getTodayVoteCount", visitorId |-> visitorId,
              ret |-> Len(SelectSeq(readData("votes", emptyDoc("votes")).votes,
                          LAMBDA v : v.voterId = visitorId /\ startsWith(v.createdAt, today)))]
    /\ UNCHANGED <<env, clock, nextOid, added, budget>>

(***************************************************************************)
(* The votes repository over two voters and two profiles, on a clock that  *)
(* takes two instants of one day and one of the next.  A vote is recorded  *)
(* with the instant of the call as its createdAt.                          *)
(***************************************************************************)
MaxVoteCalls == 2

voteTimes == {0, 1, MsPerDay}

voterIds == {1, 2}

profileIds == {1, 2}

InitVotes ==
    /\ \E mode \in Modes : processState(mode, noDocs)
    /\ clock = 0
    /\ nextOid = 1
    /\ added = 0
    /\ budget = MaxVoteCalls
    /\ scope = {"votes"}

NextVotes ==
    \/ \E t \in voteTimes : Tick(t)
    \/ getVotes
    \/ \E v \in voterIds : \E p \in profileIds :
          addVote([voterId |-> v, profileId |-> p, createdAt |-> toISOString(clock)])
    \/ \E p \in profileIds : getVotesForProfile(p)
    \/ \E v \in voterIds : \E p \in profileIds : hasVotedToday(v, p)
    \/ \E v \in voterIds : getTodayVoteCount(v)
    \/ \E p \in BagToSet(pending) : kvSetResolved(p)
    \/ \E p \in BagToSet(pending) : kvSetRejected(p)

SpecVotes == InitVotes /\ [][NextVotes]_vars

\* A stored vote of the voter for the profile, dated the day d.
votedOn(votes, visitorId, profileId, d) ==
    \E i \in DOMAIN votes :
        /\ votes[i].voterId = visitorId
        /\ votes[i].profileId = profileId
        /\ datePrefix(votes[i].createdAt) = d

\* C9: hasVotedToday(V, P) returns true exactly when a stored vote has voterId
\* V, profileId P and a createdAt on the current UTC date (so at any time of
\* today, and not for a vote of yesterday, of another voter or for another
\* profile); and when the date moves on while no vote is added, no pair that
\* would have been reported as voted is reported so any longer.
DailyVoteCheck ==
    [][\A before \in {stored("votes")} : \A after \in {stored("votes")'} :
         /\ op'.fn = "hasVotedToday" =>
               op'.ret = votedOn(after, op'.visitorId, op'.profileId,
                                 clock' \div MsPerDay)
         /\ (clock' \div MsPerDay) > (clock \div MsPerDay) /\ after = before =>
               \A v \in voterIds, p \in profileIds :
                   someVoteToday(before, v, p) => ~someVoteToday(after, v, p)']_vars

\* hasVotedToday(1, 1) has returned false on the day after voter 1 voted for
\* profile 1, while voter 2 has voted for profile 1 today.
DailyVoteCheckWitness ==
    /\ op.fn = "hasVotedToday"
    /\ op.visitorId = 1
    /\ op.profileId = 1
    /\ op.ret = FALSE
    /\ today = 1
    /\ votedOn(stored("votes"), 1, 1, 0)
    /\ votedOn(stored("votes"), 2, 1, 1)

(***************************************************************************)
(* Profiles, lines 113-158, and updateProfileVotesAndRank, lines 313-317.  *)
(***************************************************************************)
\* readData, lines 73-74, in a call that has read other files before: f are the
\* files as that call has left them.
filesAfterReadIn(f, name, defaultValue) ==
    IF ~isVercel /\ f[name] = NoFile
    THEN [f EXCEPT ![name] = JSONstringify(defaultValue)]
    ELSE f

\* writeData in such a call.
writeDataIn(f, name, data, obj) ==
    IF isVercel
    THEN writeData(name, data, obj)
    ELSE /\ files' = [f EXCEPT ![name] = JSONstringify(data)]
         /\ UNCHANGED <<memoryStore, heap, kvStore, pending>>

\* getAllProfiles, lines 115-118.
getAllProfiles ==
    /\ readOnly("profiles", emptyDoc("profiles"))
    /\ op' = [fn |-> "getAllProfiles", ret |-> readData("profiles", emptyDoc("profiles")).profiles]
    /\ UNCHANGED <<env, clock, nextOid, added, budget>>

\* getProfileById, lines 120-123.
getProfileById(id) ==
    /\ readOnly("profiles", emptyDoc("profiles"))
    /\ op' = [fn |-> "getProfileById", id |-> id,
              ret |-> find(readData("profiles", emptyDoc("profiles")).profiles, id)]
    /\ UNCHANGED <<env, clock, nextOid, added, budget>>

\* createProfile, lines 125-130.
createProfile(profile) ==
    \E data \in {readData("profiles", emptyDoc("profiles"))} :
        /\ canWrite
        /\ budget > 0
        /\ writeData("profiles", [data EXCEPT !.profiles = Append(@, profile)],
                     objOf("profiles"))
        /\ budget' = budget - 1
        /\ op' = [fn |-> "createProfile", profile |-> profile, ret |-> profile]
        /\ UNCHANGED <<env, clock, nextOid, added>>

\* lines 137-141 with updatedAt stamped before the updates are spread.
mergedProfile_stampFirst(profile, updates) ==
    spread(spread(profile, [updatedAt |-> toISOString(clock)]), updates)

\* lines 137-141: { ...data.profiles[index], ...updates, updatedAt: new Date().toISOString() }
mergedProfile(profile, updates) ==
    spread(spread(profile, updates), [updatedAt |-> toISOString(clock)])

\* updateProfile, lines 132-145: the value returned.
updateProfile_ret(id, updates) ==
    \* lines 133-135
    LET data == readData("profiles", emptyDoc("profiles"))
        index == findIndex(data.profiles, id)
    IN  IF index = -1 THEN Null ELSE mergedProfile(data.profiles[index], updates)

\* updateProfile, lines 132-145: what it does to the store and to the number of
\* writes the process may still make, where f are the files at the call.
updateProfile_do(f, id, updates) ==
    \E data \in {readData("profiles", emptyDoc("profiles"))} :
    \E index \in {findIndex(data.profiles, id)} :
        IF index = -1
        THEN /\ files' = filesAfterReadIn(f, "profiles", emptyDoc("profiles"))
             /\ UNCHANGED <<memoryStore, heap, kvStore, pending, budget>>
        ELSE /\ canWrite
             /\ budget > 0
             /\ writeDataIn(f, "profiles",
                    [data EXCEPT !.profiles[index] = mergedProfile(@, updates)],
                    objOf("profiles"))
             /\ budget' = budget - 1

updateProfile(id, updates) ==
    /\ updateProfile_do(files, id, updates)
    /\ op' = [fn |-> "updateProfile", id |-> id, updates |-> updates,
              ret |-> updateProfile_ret(id, updates)]
    /\ UNCHANGED <<env, clock, nextOid, added>>

\* deleteProfile, lines 147-153.
deleteProfile(id) ==
    \E data \in {readData("profiles", emptyDoc("profiles"))} :
    \E filtered \in {filterOut(data.profiles, id)} :
        IF Len(filtered) = Len(data.profiles)
        THEN /\ readOnly("profiles", emptyDoc("profiles"))
             /\ op' = [fn |-> "deleteProfile", id |-> id, ret |-> FALSE]
             /\ UNCHANGED <<env, clock, nextOid, added, budget>>
        ELSE /\ canWrite
             /\ budget > 0
             /\ writeData("profiles", mkDoc("profiles", filtered), newRef)
             /\ budget' = budget - 1
             /\ op' = [fn |-> "deleteProfile", id |-> id, ret |-> TRUE]
             /\ UNCHANGED <<env, clock, nextOid, added>>

\* Array.prototype.slice(0, limit) for a limit that is no less than 0.
sliceTo(arr, limit) == SubSeq(arr, 1, Min(limit, Len(arr)))

\* getTopProfiles, lines 155-158.
getTopProfiles(limit) ==
    \E data \in {readData("profiles", emptyDoc("profiles"))} :
    \E sorted \in {sort(data.profiles, "byVotesDesc")} :
        /\ mutateInPlace("profiles", [data EXCEPT !.profiles = sorted], emptyDoc("profiles"))
        /\ op' = [fn |-> "getTopProfiles", limit |-> limit, ret |-> sliceTo(sorted, limit)]
        /\ UNCHANGED <<env, clock, nextOid, added, budget>>

\* updateProfileVotesAndRank, lines 313-317.
updateProfileVotesAndRank(profileId) ==
    \* line 314
    \E votes \in {countForProfile(readData("votes", emptyDoc("votes")).votes, profileId)} :
    \* line 315
    \E rank \in {calculateRank(votes)} :
        \* line 316
        /\ updateProfile_do(filesAfterRead("votes", emptyDoc("votes")), profileId,
                            [votes |-> votes, rank |-> rank])
        /\ op' = [fn |-> "updateProfileVotesAndRank", profileId |-> profileId,
                  ret |-> updateProfile_ret(profileId, [votes |-> votes, rank |-> rank])]
        /\ UNCHANGED <<env, clock, nextOid, added>>

(***************************************************************************)
(* The profiles and votes repositories together: two profiles, created     *)
(* with no votes in the lowest tier, and votes which the process starts    *)
(* with: none, or one short of the second tier for profile 1.              *)
(***************************************************************************)
MaxProfileCalls == 3

votesFilled == {0, 19}

profileInputs == {[id |-> i, votes |-> 0, rank |-> "bronze"] : i \in profileIds}

profileUpdates == {[rank |-> "legend"], [username |-> "dev"]}

topLimits == {1}

\* The votes collection after n calls of addVote for profile 1.
votesAfter(n) ==
    [i \in 1..n |-> [voterId |-> i, profileId |-> 1, createdAt |-> toISOString(0)]]

idsIn(arr) == {arr[i].id : i \in DOMAIN arr}

InitProfiles ==
    /\ \E mode \in Modes : \E n \in votesFilled :
          processState(mode,
              [noDocs EXCEPT !["votes"] =
                  IF n = 0 THEN NoFile ELSE mkDoc("votes", votesAfter(n))])
    /\ clock = 0
    /\ nextOid = 1
    /\ added = 0
    /\ budget = MaxProfileCalls
    /\ scope = {"profiles", "votes"}

\* A profile is created with an id that no stored profile has.
NextProfiles ==
    \/ getAllProfiles
    \/ \E id \in {1} : getProfileById(id)
    \/ \E profile \in profileInputs :
          /\ profile.id \notin idsIn(stored("profiles"))
          /\ createProfile(profile)
    \/ \E id \in {1} : \E updates \in profileUpdates : updateProfile(id, updates)
    \/ \E id \in {2} : deleteProfile(id)
    \/ \E limit \in topLimits : getTopProfiles(limit)
    \/ \E p \in profileIds :
          addVote([voterId |-> 1, profileId |-> p, createdAt |-> toISOString(clock)])
    \/ \E id \in profileIds : updateProfileVotesAndRank(id)
    \/ \E p \in BagToSet(pending) : kvSetResolved(p)
    \/ \E p \in BagToSet(pending) : kvSetRejected(p)

SpecProfiles == InitProfiles /\ [][NextProfiles]_vars

\* The number of vote records of a profile.
voteRecordsOf(profileId) ==
    Cardinality({i \in DOMAIN stored("votes") : stored("votes")[i].profileId = profileId})

\* C2: right after updateProfileVotesAndRank(id) has returned for the id of a
\* stored profile, that profile's votes is the number of vote records with its
\* id as profileId, and its rank is calculateRank of its votes.
VotesAndRankEstablished ==
    op.fn = "updateProfileVotesAndRank" /\ op.ret # Null =>
        \A profiles \in {stored("profiles")} : \A n \in {voteRecordsOf(op.profileId)} :
            /\ op.profileId \in idsIn(profiles)
            /\ \A i \in DOMAIN profiles :
                  profiles[i].id = op.profileId =>
                      /\ profiles[i].votes = n
                      /\ profiles[i].rank = calculateRank(profiles[i].votes)

\* updateProfileVotesAndRank(1) has returned with the twentieth vote for
\* profile 1 recorded: the profile is stored with 20 votes in the second tier.
VotesAndRankEstablishedWitness ==
    /\ op.fn = "updateProfileVotesAndRank"
    /\ op.profileId = 1
    /\ op.ret # Null
    /\ voteRecordsOf(1) = 20
    /\ \E i \in DOMAIN stored("profiles") :
          /\ stored("profiles")[i].id = 1
          /\ stored("profiles")[i].votes = 20
          /\ stored("profiles")[i].rank = "silver"

\* The calls of the repositories other than updateProfileVotesAndRank.
otherCalls ==
    {"getAllProfiles", "getProfileById", "createProfile", "updateProfile",
     "deleteProfile", "getTopProfiles", "addVote"}

rankKept(before, after) ==
    \A i \in DOMAIN before : \A j \in DOMAIN after :
        before[i].id = after[j].id => after[j].rank = before[i].rank

\* C3: no call of the repositories other than updateProfileVotesAndRank changes
\* the rank of a profile that is stored before and after the call.
RankMutatedOnlyByVoteUpdate ==
    [][op'.fn \in otherCalls =>
         \A before \in {stored("profiles")} : \A after \in {stored("profiles")'} :
             rankKept(before, after)]_vars

\* C3, second half: once rank = calculateRank(votes) holds of a stored profile,
\* it holds after every call of the repositories.
RankFollowsVotesKept ==
    [][op'.fn \in otherCalls \cup {"updateProfileVotesAndRank"} =>
         \A before \in {stored("profiles")} : \A after \in {stored("profiles")'} :
         \A i \in DOMAIN before : \A j \in DOMAIN after :
             /\ before[i].id = after[j].id
             /\ before[i].rank = calculateRank(before[i].votes)
             => after[j].rank = calculateRank(after[j].votes)]_vars

\* What does hold: a call other than updateProfileVotesAndRank and other than an
\* updateProfile whose update carries rank keeps every stored rank.
RankKeptWithoutRankUpdate ==
    [][/\ op'.fn \in otherCalls
       /\ op'.fn = "updateProfile" => ~Has(op'.updates, "rank")
       => \A before \in {stored("profiles")} : \A after \in {stored("profiles")'} :
             rankKept(before, after)]_vars

(***************************************************************************)
(* Users, lines 160-190.                                                   *)
(***************************************************************************)
\* getUserById, lines 166-169.
getUserById(id) ==
    /\ readOnly("users", emptyDoc("users"))
    /\ op' = [fn |-> "getUserById", id |-> id,
              ret |-> find(readData("users", emptyDoc("users")).users, id)]
    /\ UNCHANGED <<env, clock, nextOid, added, budget>>

\* createUser, lines 176-181.
createUser(user) ==
    \E data \in {readData("users", emptyDoc("users"))} :
        /\ canWrite
        /\ budget > 0
        /\ writeData("users", [data EXCEPT !.users = Append(@, user)], objOf("users"))
        /\ budget' = budget - 1
        /\ op' = [fn |-> "createUser", user |-> user, ret |-> user]
        /\ UNCHANGED <<env, clock, nextOid, added>>

\* updateUser, lines 183-190.
updateUser(id, updates) ==
    \E data \in {readData("users", emptyDoc("users"))} :
    \E index \in {findIndex(data.users, id)} :
        IF index = -1
        THEN /\ readOnly("users", emptyDoc("users"))
             /\ op' = [fn |-> "updateUser", id |-> id, updates |-> updates, ret |-> Null]
             /\ UNCHANGED <<env, clock, nextOid, added, budget>>
        ELSE /\ canWrite
             /\ budget > 0
             /\ writeData("users", [data EXCEPT !.users[index] = spread(@, updates)],
                          objOf("users"))
             /\ budget' = budget - 1
             /\ op' = [fn |-> "updateUser", id |-> id, updates |-> updates,
                       ret |-> spread(data.users[index], updates)]
             /\ UNCHANGED <<env, clock, nextOid, added>>

(***************************************************************************)
(* The lookups, updates and deletes of the three collections that have     *)
(* them, called with the id 1, which an entity may have, and with the id   *)
(* 3, which none has.                                                      *)
(***************************************************************************)
MaxLookupCalls == 2

calledIds == {1, 3}

userInputs == {[id |-> 1, username |-> "dev"]}

userUpdates == {[username |-> "Dev"]}

InitLookup ==
    /\ \E mode \in Modes : processState(mode, noDocs)
    /\ clock = 0
    /\ nextOid = 1
    /\ added = 0
    /\ budget = MaxLookupCalls
    /\ scope = {"users", "profiles", "posts"}

NextLookup ==
    \/ \E profile \in profileInputs :
          /\ profile.id \notin idsIn(stored("profiles"))
          /\ createProfile(profile)
    \/ \E user \in userInputs : createUser(user)
    \/ \E post \in {postA, postB} : createPost(post)
    \/ \E id \in calledIds : getProfileById(id)
    \/ \E id \in calledIds : getUserById(id)
    \/ \E id \in calledIds : getPostById(id)
    \/ \E id \in calledIds : \E updates \in profileUpdates : updateProfile(id, updates)
    \/ \E id \in calledIds : \E updates \in userUpdates : updateUser(id, updates)
    \/ \E id \in calledIds : \E updates \in postUpdates : updatePost(id, updates)
    \/ \E id \in calledIds : likePost(id)
    \/ \E id \in calledIds : deleteProfile(id)
    \/ \E id \in calledIds : deletePost(id)
    \/ \E p \in BagToSet(pending) : kvSetResolved(p)
    \/ \E p \in BagToSet(pending) : kvSetRejected(p)

SpecLookup == InitLookup /\ [][NextLookup]_vars

lookups == {"getProfileById", "getUserById", "getPostById"}

updaters == {"updateProfile", "updateUser", "updatePost", "likePost"}

deletes == {"deleteProfile", "deletePost"}

\* The collection a call works on.
collectionOf(fn) ==
    CASE fn \in {"getProfileById", "updateProfile", "deleteProfile"} -> "profiles"
      [] fn \in {"getUserById", "updateUser"} -> "users"
      [] fn \in {"getPostById", "updatePost", "likePost", "deletePost"} -> "posts"

\* The step is a call, with an id that no entity of the collection has, of one
\* of the nine operations.
absentIdCall ==
    /\ op'.fn \in lookups \cup updaters \cup deletes
    /\ op'.id \notin idsIn(stored(collectionOf(op'.fn)))

\* C10: called with an id that no entity of the collection has, the lookups and
\* the updates return null and the deletes return false, and the stored
\* collection is afterwards the sequence it was before.
NotFoundLeavesStored ==
    [][absentIdCall =>
         \A name \in {collectionOf(op'.fn)} :
         \A before \in {stored(name)} : \A after \in {stored(name)'} :
            /\ op'.ret = IF op'.fn \in deletes THEN FALSE ELSE Null
            /\ after = before]_vars

\* What does hold: null or false is returned, nothing is written, and the
\* stored collection holds afterwards the entities it held before, each as
\* many times.
NotFoundKeepsEntities ==
    [][absentIdCall =>
         \A name \in {collectionOf(op'.fn)} :
         \A before \in {stored(name)} : \A after \in {stored(name)'} :
            /\ op'.ret = IF op'.fn \in deletes THEN FALSE ELSE Null
            /\ sameEntities(after, before)
            /\ pending' = pending
            /\ kvStore' = kvStore
            /\ \A n \in Names : files[n] # NoFile => files'[n] = files[n]]_vars

(***************************************************************************)
(* The Record Store with its asynchronous read, lines 44-64.  The kv.get   *)
(* call of readDataAsync resolves with what the remote key holds (null     *)
(* when it holds nothing) or rejects.                                      *)
(***************************************************************************)
kvOutcomes == {"resolved", "rejected"}

\* memoryStore.get(name) || defaultValue
cachedOr(name, defaultValue) ==
    IF cachedRef(name) # NoRef THEN heap[cachedRef(name)] ELSE defaultValue

\* readDataAsync, lines 44-64: the value the promise resolves with.
readDataAsync(name, defaultValue, outcome) ==
    IF isVercel /\ kv
    THEN IF outcome = "resolved"
         \* lines 47-48: data || defaultValue
         THEN IF kvStore[name] = NoFile THEN defaultValue ELSE JSONparse(kvStore[name])
         \* lines 50-51
         ELSE cachedOr(name, defaultValue)
    ELSE IF ~isVercel
         \* lines 53-61
         THEN IF files[name] = NoFile THEN defaultValue ELSE JSONparse(files[name])
         \* line 63
         ELSE cachedOr(name, defaultValue)

ReadDataAsync(name, defaultValue, outcome) ==
    /\ ~(isVercel /\ kv) => outcome = "resolved"
    /\ readOnly(name, defaultValue)
    /\ op' = [fn |-> "readDataAsync", name |-> name, defaultValue |-> defaultValue,
              outcome |-> outcome, ret |-> readDataAsync(name, defaultValue, outcome)]
    /\ UNCHANGED <<env, clock, nextOid, added, budget>>

NextAsync ==
    \/ \E name \in scope : \E data \in storeDocs(name) :
          \E obj \in {newRef, objOf(name)} : WriteData(name, data, obj)
    \/ \E name \in scope : \E d \in storeDefaults(name) : ReadData(name, d)
    \/ \E name \in scope : \E d \in storeDefaults(name) : \E outcome \in kvOutcomes :
          ReadDataAsync(name, d, outcome)
    \/ \E p \in BagToSet(pending) : kvSetResolved(p)
    \/ \E p \in BagToSet(pending) : kvSetRejected(p)

SpecAsync == InitStore /\ [][NextAsync]_vars

\* Nothing was ever written under the name: no file, no cached object, no
\* remote key and no write on its way.
neverWritten(name) ==
    /\ files[name] = NoFile
    /\ memoryStore[name] = NoRef
    /\ kvStore[name] = NoFile
    /\ \A p \in BagToSet(pending) : p.name # name

\* The step is a read, with the default dflt, of the collection name that was
\* never written.
firstRead(name, dflt) ==
    /\ op'.fn \in {"readData", "readDataAsync"}
    /\ op'.name = name
    /\ op'.defaultValue = dflt
    /\ neverWritten(name)

\* C11: a read of a collection that was never written returns the default it
\* was given and persists it: every later read, whatever default it passes,
\* returns the default of the first read.
FirstReadPersistsDefault ==
    [][\A name \in scope : \A dflt \in storeDefaults(name) :
         firstRead(name, dflt) =>
            /\ op'.ret = dflt
            /\ \A d \in storeDefaults(name) : readData(name, d)' = dflt]_vars

\* C11, as the code has it: in local mode the first read creates the file with
\* its default, which every later read returns; in hosted mode the first read
\* returns its default and keeps nothing of it, so that the collection is as
\* unwritten as before and a later read returns the default it passes itself.
FirstReadByMode ==
    [][\A name \in scope : \A dflt \in storeDefaults(name) :
         firstRead(name, dflt) =>
            /\ op'.ret = dflt
            /\ ~isVercel =>
                  /\ files'[name] = JSONstringify(dflt)
                  /\ \A d \in storeDefaults(name) :
                        /\ readData(name, d)' = dflt
                        /\ \A outcome \in kvOutcomes :
                              readDataAsync(name, d, outcome)' = dflt
            /\ isVercel =>
                  /\ neverWritten(name)'
                  /\ \A d \in storeDefaults(name) :
                        /\ readData(name, d)' = d
                        /\ \A outcome \in kvOutcomes :
                              readDataAsync(name, d, outcome)' = d]_vars

\* A first read in hosted mode has returned its default of one entity, and the
\* collection is still unwritten.
FirstReadByModeWitness ==
    /\ isVercel
    /\ op.fn \in {"readData", "readDataAsync"}
    /\ op.defaultValue # emptyDoc(op.name)
    /\ op.ret = op.defaultValue
    /\ neverWritten(op.name)

\* C12: whatever step the process takes, the votes stored before it are stored
\* after it, unchanged and at their places; addVote adds its vote at the end
\* (also one that repeats a stored vote) and no other step changes the
\* collection, so that the count of no profile's votes goes down.
VotesAppendOnly ==
    [][\A before \in {stored("votes")} : \A after \in {stored("votes")'} :
         /\ Len(after) >= Len(before)
         /\ SubSeq(after, 1, Len(before)) = before
         /\ op'.fn = "addVote" => after = Append(before, op'.vote)
         /\ op'.fn # "addVote" => after = before
         /\ \A p \in profileIds :
               countForProfile(after, p) >= countForProfile(before, p)]_vars

\* addVote has stored a second vote of the same voter for the same profile at
\* the same instant.
VotesAppendOnlyWitness ==
    /\ op.fn = "addVote"
    /\ \E votes \in {stored("votes")} :
          /\ Len(votes) = 2
          /\ votes[1] = votes[2]
          /\ votes[2] = op.vote

(***************************************************************************)
(* Two deployments side by side: a local-mode process and a hosted-mode    *)
(* process (with a client), both started with empty stores, that are given *)
(* the same calls of the profiles repository in the same order.  The files *)
(* are the local process's, the Map, its objects, the remote store and the *)
(* writes in flight are the hosted process's; isVercel and kv are those of *)
(* the process that takes the next call.  Each call goes to the local      *)
(* process first and then, with the same arguments, to the hosted one.     *)
(***************************************************************************)
MaxBackendCalls == 4

backendProfiles ==
    {[id |-> 1, votes |-> 0, rank |-> "bronze"], [id |-> 2, votes |-> 20, rank |-> "silver"]}

backendCalls ==
    {"createProfile", "updateProfile", "deleteProfile", "getAllProfiles",
     "getProfileById", "getTopProfiles"}

\* No call is under way in either process.
idle == op.fn \in {"startup", "compared", "kvSetResolved", "kvSetRejected"}

\* The local process takes a new call.
localTurn == ~isVercel /\ idle /\ BagCardinality(pending) < MaxPending

\* The hosted process takes the call fn that the local process has answered.
hostedTurn(fn) == isVercel /\ op.fn = "sameCall" /\ op.call.fn = fn

\* The call the local process has answered goes to the hosted process.
ToHosted ==
    /\ ~isVercel
    /\ op.fn \in backendCalls
    /\ isVercel' = TRUE
    /\ kv' = TRUE
    /\ op' = [fn |-> "sameCall", call |-> op]
    /\ UNCHANGED <<storeVars, clock, nextOid, scope, added, budget>>

\* Both processes have answered; the next call goes to the local process.
ToLocal ==
    /\ isVercel
    /\ op.fn \in backendCalls
    /\ isVercel' = FALSE
    /\ kv' = FALSE
    /\ op' = [fn |-> "compared"]
    /\ UNCHANGED <<storeVars, clock, nextOid, scope, added, budget>>

InitBackends ==
    /\ processState(<<FALSE, FALSE>>, noDocs)
    /\ clock = 0
    /\ nextOid = 1
    /\ added = 0
    /\ budget = 2 * MaxBackendCalls
    /\ scope = {"profiles"}

NextBackends ==
    \/ ToHosted
    \/ ToLocal
    \/ \E profile \in backendProfiles :
          /\ localTurn \/ (hostedTurn("createProfile") /\ op.call.profile = profile)
          /\ profile.id \notin idsIn(stored("profiles"))
          /\ createProfile(profile)
    \/ \E id \in {1} : \E updates \in {[username |-> "dev"]} :
          /\ localTurn
               \/ (hostedTurn("updateProfile") /\ op.call.id = id /\ op.call.updates = updates)
          /\ updateProfile(id, updates)
    \/ \E id \in {1} :
          /\ localTurn \/ (hostedTurn("deleteProfile") /\ op.call.id = id)
          /\ deleteProfile(id)
    \/ /\ localTurn \/ hostedTurn("getAllProfiles")
       /\ getAllProfiles
    \/ \E id \in {2} :
          /\ localTurn \/ (hostedTurn("getProfileById") /\ op.call.id = id)
          /\ getProfileById(id)
    \/ \E limit \in topLimits :
          /\ localTurn \/ (hostedTurn("getTopProfiles") /\ op.call.limit = limit)
          /\ getTopProfiles(limit)
    \/ \E p \in BagToSet(pending) : idle /\ kvSetResolved(p)
    \/ \E p \in BagToSet(pending) : idle /\ kvSetRejected(p)

SpecBackends == InitBackends /\ [][NextBackends]_vars

\* C13: the hosted process returns for every call what the local process has
\* returned for it, the order of the entities in a returned sequence included.
BackendTransparency ==
    [][isVercel /\ op.fn = "sameCall" => op'.ret = op.call.ret]_vars

(***************************************************************************)
(* The migration script, scripts/migrate-to-kv.mjs.  It is a process of    *)
(* its own: files are the JSON files of the data directory, kvStore is the *)
(* remote store, and op holds the script's locals: pc and i (the position  *)
(* in migrate and in the for loop), successCount and errorCount, the       *)
(* environment (token: KV_REST_API_TOKEN is set; client: the remote store  *)
(* accepts the client's requests or not), and what an observer notes:      *)
(* visited (the files the loop has reached), outcomes (what happened to    *)
(* each), reads (readFileSync calls), exit (the exit status, -1 while the  *)
(* script runs), run (how often the script was started), before (the       *)
(* remote store when this run started) and prev (outcomes and remote store *)
(* at the end of the previous run).                                        *)
(***************************************************************************)
MaxRuns == 2

FILES == nameOrder

\* A file whose content JSON.parse rejects.
corruptText == [corrupt |-> TRUE]

\* JSON.parse(fileContent) throws a SyntaxError.
parseThrows(fileContent) == fileContent = corruptText

clients == {"ok", "down"}

\* kv.set(key, data) appending to what the key holds instead of replacing it.
kvSet_append(store, key, data) ==
    [store EXCEPT ![key] =
        IF @ = NoFile THEN JSONstringify(data)
        ELSE [@ EXCEPT !.rows = @ \o JSONstringify(data).rows]]

\* kv.set(key, data), fulfilled: the key holds the serialised data.
kvSet(store, key, data) == [store EXCEPT ![key] = JSONstringify(data)]

\* Lines 11-21 at the start of a run.
started(token, client, run, prev) ==
    [fn |-> "migrate", pc |-> "start", token |-> token, client |-> client,
     i |-> 1, successCount |-> 0, errorCount |-> 0,
     visited |-> <<>>, outcomes |-> <<>>, reads |-> 0, exit |-> -1,
     run |-> run, before |-> kvStore, prev |-> prev]

\* The loop moves to the next file; what happened to this one is noted.
nextFile(o, outcome) ==
    [o EXCEPT !.i = @ + 1,
              !.visited = Append(@, FILES[o.i]),
              !.outcomes = Append(@, outcome)]

\* Lines 26-29: the file does not exist.
skipped(o) == nextFile(o, "skipped")

\* Lines 40-43 with the error thrown again instead of counted.
caught_rethrow(o, outcome) ==
    [o EXCEPT !.pc = "exited", !.exit = 1,
              !.visited = Append(@, FILES[o.i]),
              !.outcomes = Append(@, outcome),
              !.reads = @ + 1]

\* Lines 40-43: the catch block, after readFileSync.
caught(o, outcome) ==
    [nextFile(o, outcome) EXCEPT !.errorCount = @ + 1, !.reads = @ + 1]

\* Lines 32-39: the try block ran to its end.
migrated(o) ==
    [nextFile(o, "resolved") EXCEPT !.successCount = @ + 1, !.reads = @ + 1]

\* Lines 14-21.
MigrateCheck ==
    /\ op.fn = "migrate"
    /\ op.pc = "start"
    /\ op' = IF ~op.token THEN [op EXCEPT !.pc = "exited", !.exit = 1]
                          ELSE [op EXCEPT !.pc = "loop"]
    /\ UNCHANGED <<env, storeVars, clock, nextOid, added, budget>>

\* Lines 23-44: one iteration; outcome is what kv.set does if it is called.
MigrateFile(outcome) ==
    /\ op.fn = "migrate"
    /\ op.pc = "loop"
    /\ op.i <= Len(FILES)
    /\ \E fileName \in {FILES[op.i]} :
         IF files[fileName] = NoFile
         THEN /\ outcome = "resolved"
              /\ op' = skipped(op)
              /\ kvStore' = kvStore
         ELSE IF parseThrows(files[fileName])
         THEN /\ outcome = "resolved"
              /\ op' = caught(op, "parseError")
              /\ kvStore' = kvStore
         ELSE IF outcome = "rejected" \/ op.client = "down"
         THEN /\ outcome = "rejected"
              /\ op' = caught(op, "rejected")
              /\ kvStore' = kvStore
         ELSE /\ op' = migrated(op)
              /\ kvStore' = kvSet(kvStore, fileName, JSONparse(files[fileName]))
    /\ UNCHANGED <<env, files, memoryStore, heap, pending, clock, nextOid, added, budget>>

\* Lines 46-55: the summary; migrate returns and the process ends.
MigrateEnd ==
    /\ op.fn = "migrate"
    /\ op.pc = "loop"
    /\ op.i > Len(FILES)
    /\ op' = [op EXCEPT !.pc = "done", !.exit = 0]
    /\ UNCHANGED <<env, storeVars, clock, nextOid, added, budget>>

\* node scripts/migrate-to-kv.mjs once more, in the same environment.
Rerun ==
    /\ op.fn = "migrate"
    /\ op.pc \in {"done", "exited"}
    /\ op.run < MaxRuns
    /\ op' = started(op.token, op.client, op.run + 1,
                     [outcomes |-> op.outcomes, kvStore |-> kvStore])
    /\ UNCHANGED <<env, storeVars, clock, nextOid, added, budget>>

migratedItems == <<[id |-> 1]>>
remoteItems == <<[id |-> 2, votes |-> 0]>>

\* What a data file can hold when the script starts.
fileTexts(name) == {NoFile, corruptText, JSONstringify(mkDoc(name, migratedItems))}

\* What the remote store can hold under a key when the script starts.
remoteTexts(name) == {NoFile, JSONstringify(mkDoc(name, remoteItems))}

InitMigrate ==
    /\ isVercel = FALSE
    /\ kv = FALSE
    /\ files \in [Names -> UNION {fileTexts(n) : n \in Names}]
    /\ \A n \in Names : files[n] \in fileTexts(n)
    /\ \E full \in BOOLEAN :
         kvStore = [n \in Names |->
                      IF full THEN JSONstringify(mkDoc(n, remoteItems)) ELSE NoFile]
    /\ memoryStore = [n \in Names |-> NoRef]
    /\ heap = <<>>
    /\ pending = EmptyBag
    /\ clock = 0
    /\ nextOid = 1
    /\ added = 0
    /\ budget = 0
    /\ scope = Names
    /\ \E token \in BOOLEAN : \E client \in clients :
         op = started(token, client, 1, [outcomes |-> <<>>, kvStore |-> kvStore])

NextMigrate ==
    \/ MigrateCheck
    \/ \E outcome \in kvOutcomes : MigrateFile(outcome)
    \/ MigrateEnd
    \/ Rerun

SpecMigrate == InitMigrate /\ [][NextMigrate]_vars

\* The script has ended.
ended == op.pc \in {"done", "exited"}

count(outcomes, what) == Cardinality({k \in DOMAIN outcomes : outcomes[k] \in what})

\* C14: the loop visits users, profiles, posts, chat, votes once each in that
\* order; a parse error or a rejected remote set is counted and the loop goes
\* on with the next file; every visited file is counted as migrated, failed or
\* skipped, so that at the end successCount + errorCount + skipped files = 5.
MigrateIsolatesFailures ==
    op.token =>
      /\ op.visited = SubSeq(FILES, 1, Len(op.visited))
      /\ Len(op.outcomes) = Len(op.visited)
      /\ op.successCount = count(op.outcomes, {"resolved"})
      /\ op.errorCount = count(op.outcomes, {"parseError", "rejected"})
      /\ op.successCount + op.errorCount + count(op.outcomes, {"skipped"})
           = Len(op.visited)
      /\ ended => /\ op.visited = FILES
                  /\ op.successCount + op.errorCount
                       + count(op.outcomes, {"skipped"}) = 5

\* A run in which a parse error, a rejected set and a missing file all came
\* before a file that was migrated.
MigrateIsolatesFailuresWitness ==
    /\ op.pc = "done"
    /\ op.visited = FILES
    /\ op.errorCount = 2
    /\ \E a, b, c, d \in DOMAIN op.outcomes :
         /\ a < d /\ b < d /\ c < d
         /\ op.outcomes[a] = "parseError"
         /\ op.outcomes[b] = "rejected"
         /\ op.outcomes[c] = "skipped"
         /\ op.outcomes[d] = "resolved"

\* C15: without a credentialed, reachable remote client the script ends with a
\* non-zero exit status; without the token it ends before any file is read and
\* before any key is written.
MigrateFailsFast ==
    ended /\ (~op.token \/ op.client = "down") =>
      /\ op.exit # 0
      /\ ~op.token => op.reads = 0 /\ kvStore = op.before

\* The part that holds: without the token the script exits with status 1, no
\* file read, no key written, no file visited.
MigrateAbortsWithoutToken ==
    ended /\ ~op.token =>
      op.exit = 1 /\ op.reads = 0 /\ op.visited = <<>> /\ kvStore = op.before

\* C16: a run whose files had the same outcomes as in the run before leaves the
\* remote store as that run left it; each migrated key holds the parsed content
\* of its file, and every other key holds what it held when the run started.
MigrateIdempotent ==
    op.pc = "done" =>
      /\ \A k \in DOMAIN FILES :
           IF op.outcomes[k] = "resolved"
           THEN kvStore[FILES[k]] # NoFile
                /\ JSONparse(kvStore[FILES[k]]) = JSONparse(files[FILES[k]])
           ELSE kvStore[FILES[k]] = op.before[FILES[k]]
      /\ op.run > 1 /\ op.outcomes = op.prev.outcomes => kvStore = op.prev.kvStore

\* A second run with the outcomes of the first: one key migrated over older
\* content, one file missing whose key holds older content, one set rejected.
MigrateIdempotentWitness ==
    /\ op.pc = "done"
    /\ op.run = 2
    /\ op.outcomes = op.prev.outcomes
    /\ \E a, b, c \in DOMAIN op.outcomes :
         /\ op.outcomes[a] = "resolved"
         /\ op.outcomes[b] = "skipped" /\ kvStore[FILES[b]] # NoFile
         /\ op.outcomes[c] = "rejected"
    /\ \E n \in Names : kvStore[n] # JSONstringify(mkDoc(n, remoteItems)) /\ kvStore[n] # NoFile

(***************************************************************************)
(* Two requests in one process.  No repository function awaits anything    *)
(* (lines 115-317 hold no await), so a call runs from its readData to its  *)
(* writeData before the next call starts: the calls of two requests come   *)
(* one after the other, as the steps of SpecPosts do, with the background  *)
(* remote writes completing in between in any order.                       *)
(***************************************************************************)
\* The likes an entity counts.
likeCount(e) == IF Has(e, "likes") THEN e.likes ELSE 0

BothLikesCounted ==
    ~isVercel /\ op.fn = "likePost" /\ op.ret # Null /\ likeCount(op.ret) = 2

\* C18: in hosted mode the document of the last writeData is what every read
\* returns until the next write: a writeData step makes its document the one
\* readData returns, no other step (a read, or the completion of a remote
\* write) changes what readData returns, and readDataAsync returns what
\* readData returns.
HostedWriteVisible ==
    [][\A name \in scope : \A d \in storeDefaults(name) :
         isVercel =>
           /\ (op'.fn = "writeData" /\ op'.name = name) => readData(name, d)' = op'.data
           /\ (op'.fn # "writeData" /\ memoryStore[name] # NoRef)
                 => readData(name, d)' = readData(name, d)
           /\ (op'.fn = "readDataAsync" /\ op'.name = name /\ op'.defaultValue = d
                 /\ memoryStore[name] # NoRef)
                 => op'.ret = readData(name, d)]_vars

\* The half of it that is about readData while nothing but reads happens: the
\* written document is returned, a remote write under way or not.
HostedWriteVisibleToReadData ==
    [][\A name \in scope : \A d \in storeDefaults(name) :
         isVercel =>
           /\ (op'.fn = "writeData" /\ op'.name = name) => readData(name, d)' = op'.data
           /\ (op'.fn \in {"readData", "readDataAsync"} /\ memoryStore[name] # NoRef)
                 => readData(name, d)' = readData(name, d)
           /\ (op'.fn = "readData" /\ op'.name = name /\ op'.defaultValue = d
                 /\ memoryStore[name] # NoRef)
                 => op'.ret = readData(name, d)]_vars

\* C19: when the remote set of a write fails, nothing is raised (the step is
\* the whole of the failure), the remote store is left as it was, the cache
\* holds the document object of that write with its content untouched, and a
\* readData that follows returns it, whatever its default; writeData itself
\* has returned with the document cached before the set was even settled.
HostedWriteFailureKeepsCache ==
    [][\A p \in BagToSet(pending) :
         /\ (op'.fn = "kvSetRejected" /\ pending' = pending (-) SetToBag({p})) =>
               /\ kvStore' = kvStore
               /\ memoryStore'[p.name] = p.data
               /\ p.data \in DOMAIN heap'
               /\ heap'[p.data] = heap[p.data]
               /\ \A d \in storeDefaults(p.name) : readData(p.name, d)' = heap[p.data]
         /\ (op'.fn = "readData" /\ op.fn = "kvSetRejected" /\ op.name = op'.name) =>
               op'.ret = heap[memoryStore[op.name]]]_vars

\* The only write of a document that is not empty has failed: the remote store
\* holds nothing, the cache holds the document, and readData has returned it
\* to a caller that passed another default.
HostedWriteFailureKeepsCacheWitness ==
    /\ isVercel /\ kv
    /\ op.fn = "readData"
    /\ pending = EmptyBag
    /\ kvStore[op.name] = NoFile
    /\ memoryStore[op.name] # NoRef
    /\ op.ret = heap[memoryStore[op.name]]
    /\ op.ret # op.defaultValue
    /\ op.ret # emptyDoc(op.name)

\* C20: in hosted mode a readDataAsync whose remote lookup found nothing or
\* failed returns the cached document of the collection if there is one, and
\* its default only if there is none.
ReadDataAsyncFallback ==
    (op.fn = "readDataAsync" /\ isVercel
        /\ (op.outcome = "rejected" \/ kvStore[op.name] = NoFile))
      => op.ret = cachedOr(op.name, op.defaultValue)

\* The half of it that holds: after a backend error, and in a hosted process
\* without a client, the cached document is returned if there is one.
ReadDataAsyncErrorFallback ==
    (op.fn = "readDataAsync" /\ isVercel /\ (op.outcome = "rejected" \/ ~kv))
      => op.ret = cachedOr(op.name, op.defaultValue)

\* A backend error while a document is cached: the cached document came back.
ReadDataAsyncErrorFallbackWitness ==
    /\ op.fn = "readDataAsync"
    /\ isVercel /\ kv
    /\ op.outcome = "rejected"
    /\ memoryStore[op.name] # NoRef
    /\ op.ret = heap[memoryStore[op.name]]
    /\ op.ret # op.defaultValue

(***************************************************************************)
(* The updates of the three collections that have one, over two entities   *)
(* of each, on a clock that moves; one update of a profile carries an      *)
(* updatedAt of the caller's.                                              *)
(***************************************************************************)
MaxUpdateCalls == 3

updateIds == {1, 2}

updateTimes == {1}

stampedUpdates == {[rank |-> "legend"],
                   [username |-> "dev", updatedAt |-> toISOString(MsPerDay)]}

updatedUsers == {[id |-> i, username |-> "dev"] : i \in updateIds}

InitUpdate ==
    /\ \E mode \in Modes : processState(mode, noDocs)
    /\ clock = 0
    /\ nextOid = 1
    /\ added = 0
    /\ budget = MaxUpdateCalls
    /\ \E name \in {"profiles", "users", "posts"} : scope = {name}

NextUpdate ==
    \/ \E t \in updateTimes : Tick(t)
    \/ \E profile \in profileInputs : "profiles" \in scope /\ createProfile(profile)
    \/ \E user \in updatedUsers : "users" \in scope /\ createUser(user)
    \/ \E post \in {postA, postB} : "posts" \in scope /\ createPost(post)
    \/ \E id \in updateIds : \E updates \in stampedUpdates :
          "profiles" \in scope /\ updateProfile(id, updates)
    \/ \E id \in updateIds : \E updates \in userUpdates :
          "users" \in scope /\ updateUser(id, updates)
    \/ \E id \in updateIds : \E updates \in postUpdates :
          "posts" \in scope /\ updatePost(id, updates)
    \/ \E p \in BagToSet(pending) : kvSetResolved(p)
    \/ \E p \in BagToSet(pending) : kvSetRejected(p)

SpecUpdate == InitUpdate /\ [][NextUpdate]_vars

\* The fields of the update over the fields of the entity.
merge(e, u) == [f \in DOMAIN e \cup DOMAIN u |-> IF f \in DOMAIN u THEN u[f] ELSE e[f]]

\* What an update of the collection is to leave in place of the entity e.
mergedBy(fn, e, u, now) ==
    IF fn = "updateProfile" THEN merge(merge(e, u), [updatedAt |-> now]) ELSE merge(e, u)

\* C21: an update with the id of a stored entity puts the merge of the update
\* over that entity (the first with the id) in its place, leaves the other
\* entities and the order as they were, persists the collection (in the file,
\* or in the cache and in a remote write), and returns the merged entity;
\* updateProfile sets updatedAt to the time of the call, whatever the update
\* carries.
UpdateMerges ==
    [][op'.fn \in {"updateProfile", "updateUser", "updatePost"} =>
         \A name \in {collectionOf(op'.fn)} :
         \A before \in {propsOf(stored(name))} : \A after \in {propsOf(stored(name)')} :
         \A index \in {findIndex(before, op'.id)} :
            index # -1 =>
              \A merged \in {mergedBy(op'.fn, before[index], op'.updates, toISOString(clock))} :
                 /\ after = [before EXCEPT ![index] = merged]
                 /\ props(op'.ret) = merged
                 /\ ~isVercel => JSONparse(files'[name])[docKey(name)] = after
                 /\ isVercel => propsOf(heap'[memoryStore'[name]][docKey(name)]) = after
                 /\ (isVercel /\ kv) =>
                       /\ BagCardinality(pending') = BagCardinality(pending) + 1
                       /\ \E p \in BagToSet(pending') :
                             /\ p.name = name
                             /\ JSONparse(p.body)[docKey(name)] = after]_vars

\* updateProfile has updated the second of two profiles with an update that
\* carries an updatedAt of the next day, at time 1.
UpdateMergesWitness ==
    /\ op.fn = "updateProfile"
    /\ op.id = 2
    /\ clock = 1
    /\ Has(op.updates, "updatedAt")
    /\ op.updates.updatedAt # toISOString(clock)
    /\ op.ret # Null
    /\ op.ret.updatedAt = toISOString(clock)
    /\ op.ret.username = "dev"
    /\ Len(stored("profiles")) = 2
    /\ stored("profiles")[2] = op.ret
    /\ stored("profiles")[1].id = 1

\* The pinned posts of a sequence, in their order.
pinnedOf(arr) == SelectSeq(propsOf(arr), LAMBDA e : pinned(e))

\* C22: in what getAllPosts returns, the pinned posts stand in the order in
\* which they are stored, whatever their createdAt.
PinnedKeepStoredOrder ==
    [][op'.fn = "getAllPosts" => pinnedOf(op'.ret) = pinnedOf(stored("posts"))]_vars

\* What the comparator gives instead: the pinned posts by descending createdAt,
\* as the unpinned ones.
PinnedNewestFirst ==
    op.fn = "getAllPosts" =>
        \A i, j \in DOMAIN op.ret :
            i < j /\ pinned(op.ret[i]) /\ pinned(op.ret[j])
                => getTime(op.ret[i].createdAt) >= getTime(op.ret[j].createdAt)

\* getAllPosts has returned two pinned posts of different createdAt.
PinnedNewestFirstWitness ==
    /\ op.fn = "getAllPosts"
    /\ Len(op.ret) = 2
    /\ pinned(op.ret[1]) /\ pinned(op.ret[2])
    /\ getTime(op.ret[1].createdAt) > getTime(op.ret[2].createdAt)

\* C23: a call of getAllPosts leaves the stored posts, their order included,
\* as they were: a raw read after the call sees what one before it saw.
GetAllPostsIsPure ==
    [][op'.fn = "getAllPosts" => stored("posts")' = stored("posts")]_vars

\* What holds: in local mode the stored posts are left as they were; in hosted
\* mode the stored posts are afterwards the sequence that was returned, which
\* holds the entities that were stored.
GetAllPostsKeepsEntities ==
    [][op'.fn = "getAllPosts" =>
         \A before \in {stored("posts")} : \A after \in {stored("posts")'} :
            /\ ~isVercel => after = before
            /\ isVercel => after = op'.ret /\ sameEntities(after, before)]_vars

(***************************************************************************)
(* The deletes of the two collections that have one, over a few entities   *)
(* (two of which may share an id), called with ids that an entity may      *)
(* have and with the id 3 of no profile.                                   *)
(***************************************************************************)
MaxDeleteCalls == 4

removedIds == {1, 2, 3}

InitDelete ==
    /\ \E mode \in Modes : processState(mode, noDocs)
    /\ clock = 0
    /\ nextOid = 1
    /\ added = 0
    /\ budget = MaxDeleteCalls
    /\ \E name \in {"profiles", "posts"} : scope = {name}

NextDelete ==
    \/ \E profile \in profileInputs : "profiles" \in scope /\ createProfile(profile)
    \/ \E post \in {postA, postB} : "posts" \in scope /\ createPost(post)
    \/ \E id \in removedIds : "profiles" \in scope /\ deleteProfile(id)
    \/ \E id \in removedIds : "posts" \in scope /\ deletePost(id)
    \/ \E p \in BagToSet(pending) : kvSetResolved(p)
    \/ \E p \in BagToSet(pending) : kvSetRejected(p)

SpecDelete == InitDelete /\ [][NextDelete]_vars

\* The sequence without the entities of the id.
without(arr, id) == SelectSeq(arr, LAMBDA e : e.id # id)

\* The step has written the document of the entities arr of the collection:
\* to the file, or to the cache and (with a client) into a remote set.
written(name, arr) ==
    /\ ~isVercel => /\ files'[name] # NoFile
                    /\ JSONparse(files'[name])[docKey(name)] = arr
    /\ isVercel => /\ memoryStore'[name] # NoRef
                   /\ propsOf(heap'[memoryStore'[name]][docKey(name)]) = arr
    /\ (isVercel /\ kv) =>
          /\ BagCardinality(pending') = BagCardinality(pending) + 1
          /\ \E p \in BagToSet(pending') :
                p.name = name /\ JSONparse(p.body)[docKey(name)] = arr

\* C24 as stated: every call of a delete writes the filtered sequence, also a
\* call with an id that no entity has.
DeleteAlwaysWrites ==
    [][op'.fn \in deletes =>
         \A name \in {collectionOf(op'.fn)} :
            written(name, without(propsOf(stored(name)), op'.id))]_vars

\* C24 (amended): a delete with an id that an entity has writes the stored
\* sequence without the entities of that id, the others in their order, and
\* returns true; a delete with an id that no entity has returns false and
\* writes nothing: no cached object, no remote set, and a file that exists is
\* left as it is.
DeleteWritesWhenRemoved ==
    [][op'.fn \in deletes =>
         \A name \in {collectionOf(op'.fn)} :
         \A before \in {propsOf(stored(name))} : \A after \in {propsOf(stored(name)')} :
            IF op'.id \in idsIn(before)
            THEN /\ op'.ret = TRUE
                 /\ after = without(before, op'.id)
                 /\ written(name, after)
            ELSE /\ op'.ret = FALSE
                 /\ after = before
                 /\ <<memoryStore, heap, kvStore, pending>>'
                        = <<memoryStore, heap, kvStore, pending>>
                 /\ files[name] # NoFile => files' = files]_vars

\* The fourth call is a delete that left one entity of three: it has removed
\* both entities of one id and left the third in place.
DeleteWritesWhenRemovedWitness ==
    /\ op.fn \in deletes
    /\ op.ret = TRUE
    /\ MaxDeleteCalls - budget = 4
    /\ Len(stored(collectionOf(op.fn))) = 1
    /\ stored(collectionOf(op.fn))[1].id # op.id

\* Hosted mode: a delete has returned false and the Map still holds nothing
\* for the collection.
DeleteNothingWritten ==
    /\ isVercel
    /\ op.fn \in deletes
    /\ op.ret = FALSE
    /\ memoryStore[collectionOf(op.fn)] = NoRef
    /\ pending = EmptyBag

(***************************************************************************)
(* Hosted processes one after the other on one remote store.  The Map of   *)
(* line 19 is created when the module is loaded, so a process that starts  *)
(* (a cold start of the serverless function) has an empty Map while the    *)
(* remote store holds what earlier processes wrote.                        *)
(***************************************************************************)
MaxColdCalls == 3

adders == {"createProfile", "createUser", "createPost", "addVote"}

\* A new process takes over once the one before has no remote write under way.
ColdStart ==
    /\ isVercel /\ kv
    /\ pending = EmptyBag
    /\ \E name \in scope : memoryStore[name] # NoRef
    /\ memoryStore' = [n \in Names |-> NoRef]
    /\ heap' = <<>>
    /\ op' = [fn |-> "ColdStart"]
    /\ UNCHANGED <<env, files, kvStore, pending, clock, nextOid, added, budget>>

InitCold ==
    /\ processState(<<TRUE, TRUE>>, noDocs)
    /\ clock = 0
    /\ nextOid = 1
    /\ added = 0
    /\ budget = MaxColdCalls
    /\ \E name \in {"profiles", "users", "posts", "votes"} : scope = {name}

NextCold ==
    \/ ColdStart
    \/ \E profile \in profileInputs : "profiles" \in scope /\ createProfile(profile)
    \/ \E user \in updatedUsers : "users" \in scope /\ createUser(user)
    \/ \E post \in {postA, postB} : "posts" \in scope /\ createPost(post)
    \/ \E v \in voterIds :
          /\ "votes" \in scope
          /\ addVote([voterId |-> v, profileId |-> 1, createdAt |-> toISOString(clock)])
    \/ \E p \in BagToSet(pending) : kvSetResolved(p)
    \/ \E p \in BagToSet(pending) : kvSetRejected(p)

SpecCold == InitCold /\ [][NextCold]_vars

\* The entities of the remote document of a collection.
remoteEntities(store, name) ==
    IF store[name] = NoFile THEN {}
    ELSE {JSONparse(store[name])[docKey(name)][i] : i \in 1..Len(store[name].rows)}

\* C25: when the remote write of a create or add call completes (the only
\* write under way, completing right after the call), the remote document
\* holds every entity it held before and the new one, also when the call was
\* the first of a process that started with an empty cache.
RemoteKeepsEntities ==
    [][(op.fn \in adders /\ BagCardinality(pending) = 1 /\ op'.fn = "kvSetResolved") =>
          \A name \in {op'.name} :
             /\ remoteEntities(kvStore, name) \subseteq remoteEntities(kvStore', name)
             /\ props(op.ret) \in remoteEntities(kvStore', name)]_vars

\* What holds: the new entity is in the remote document, together with what the
\* cache of the calling process held.
RemoteHoldsCacheOfCaller ==
    [][(op.fn \in adders /\ BagCardinality(pending) = 1 /\ op'.fn = "kvSetResolved") =>
          \A name \in {op'.name} :
             /\ props(op.ret) \in remoteEntities(kvStore', name)
             /\ JSONparse(kvStore'[name])[docKey(name)] = propsOf(stored(name))]_vars

(***************************************************************************)
(* A hosted process with a client whose remote sets all succeed, in any    *)
(* order.                                                                  *)
(***************************************************************************)
InitConverge ==
    /\ processState(<<TRUE, TRUE>>, noDocs)
    /\ clock = 0
    /\ nextOid = 1
    /\ added = 0
    /\ budget = 0
    /\ \E name \in storeNames : scope = {name}

NextConverge ==
    \/ \E name \in scope : \E data \in storeDocs(name) :
          \E obj \in {newRef, objOf(name)} : WriteData(name, data, obj)
    \/ \E name \in scope : \E d \in storeDefaults(name) : ReadData(name, d)
    \/ \E p \in BagToSet(pending) : kvSetResolved(p)

SpecConverge == InitConverge /\ [][NextConverge]_vars

\* C26: once no remote write is under way any more, the remote document of a
\* collection that was written is the cached document.
RemoteConverges ==
    \A name \in scope :
        (pending = EmptyBag /\ memoryStore[name] # NoRef)
            => /\ kvStore[name] # NoFile
               /\ JSONparse(kvStore[name]) = heap[memoryStore[name]]

\* What holds: a write that is alone under way leaves, when it completes, its
\* document in the remote store and in the cache.
RemoteConvergesWhenAlone ==
    [][(op.fn = "writeData" /\ BagCardinality(pending) = 1 /\ op'.fn = "kvSetResolved") =>
          /\ JSONparse(kvStore'[op.name]) = op.data
          /\ \A d \in storeDefaults(op.name) : \A name \in {op.name} :
                readData(name, d)' = op.data]_vars

====
